---- MODULE Spec2Model ----
(***************************************************************************)
(* Model of server.py: a FastAPI banking service over one SQLite file.     *)
(*                                                                         *)
(* Every endpoint is a plain `def`, so FastAPI runs requests on a pool of  *)
(* worker threads; each request opens its own sqlite3 connection.  The     *)
(* connections use the sqlite3 module's default transaction control: a     *)
(* SELECT runs outside any transaction and reads the committed file; the   *)
(* first INSERT/UPDATE of a request opens a transaction, which takes the   *)
(* database write lock and keeps it until commit or rollback.  Changes of  *)
(* an open transaction live in the connection's private page cache and     *)
(* reach the file (and other connections) only at commit.                  *)
(*                                                                         *)
(* Amounts are REAL in the code; the model uses small integers.  The name  *)
(* column of accounts and the timestamp column of transactions are left    *)
(* out: no statement of the code reads them back to make a decision.       *)
(***************************************************************************)
EXTENDS Integers, Sequences, FiniteSets, TLC

\* ---- bounds ----
NThreads == 2
MaxAcct == 2
MaxOps == 2
MaxWBal == 4
MaxHist == 12

\* LIMIT 10 of get_transaction_history
HistoryLimit == 10

Threads == 1..NThreads
\* account ids a request may name: every id that can exist and one that never does
AcctIds == 1..(MaxAcct + 1)
Amounts == {-1, 0, 1, 2}
\* opening deposits of the accounts that exist when the requests start
InitDeposits == {0, 2}
WAmounts == {1, 2}

VARIABLES
    db,               \* the committed database file: accounts and transactions tables
    work,             \* page cache of the connection holding the write lock
    writer,           \* thread whose connection holds the write lock, 0 if none
    pc,               \* per thread: the statement its request executes next
    op,               \* per thread: the request being served
    current_balance,  \* per thread: the balance fetched by its SELECT
    account_id,       \* per thread: cursor.lastrowid of create_account
    result,           \* per thread: outcome of its latest request
    ret,              \* per thread: balance returned by get_balance, or the
                      \* rows returned by get_transaction_history
    readw,            \* per thread: holder of the write lock when get_balance read
    failed_at,        \* per thread: the statement that raised, "" if none did
    nops              \* requests started so far

vars == <<db, work, writer, pc, op, current_balance, account_id,
          result, ret, readw, failed_at, nops>>

\* ---- the two tables (init_db) ----
EmptyDb == [accounts |-> <<>>, transactions |-> <<>>]

\* a request: its endpoint and the fields of its body (0 where it has none)
NoOp == [account_id |-> 0, kind |-> "none", to_account_id |-> 0, amount |-> 0]

\* ---- SQL statements as operators on a database image ----

\* SELECT balance FROM accounts WHERE id = ? ; fetchone(): <<row>> or <<>> (None)
SelectBalance(d, id) ==
    IF id \in DOMAIN d.accounts THEN <<d.accounts[id]>> ELSE <<>>

\* UPDATE accounts SET balance = balance + ? WHERE id = ?  (no row: no change)
UpdateBalance(d, id, delta) ==
    IF id \in DOMAIN d.accounts
    THEN [d EXCEPT !.accounts[id] = @ + delta]
    ELSE d

\* INSERT INTO accounts (name, balance); the new id is the next AUTOINCREMENT value
InsertAccount(d, balance) ==
    [d EXCEPT !.accounts = Append(@, balance)]

\* a log write that replaces the latest record instead of adding one
log_transaction_overwrites(d, acct, trans_type, amount) ==
    LET rec == [account_id |-> acct, amount |-> amount,
                id |-> Len(d.transactions), type |-> trans_type]
    IN  [d EXCEPT !.transactions =
            IF @ = <<>> THEN <<[rec EXCEPT !.id = 1]>>
            ELSE [@ EXCEPT ![Len(@)] = rec]]

\* INSERT INTO transactions (account_id, type, amount, timestamp)
log_transaction(d, acct, trans_type, amount) ==
    [d EXCEPT !.transactions =
        Append(@, [account_id |-> acct, amount |-> amount,
                   id |-> Len(@) + 1, type |-> trans_type])]

\* the transactions rows of image d with the given account_id
Matching(d, acct) ==
    {d.transactions[i] : i \in {j \in DOMAIN d.transactions :
                                    d.transactions[j].account_id = acct}}

\* ORDER BY id DESC
RECURSIVE OrderByIdDesc(_)
OrderByIdDesc(rows) ==
    IF rows = {} THEN <<>>
    ELSE LET top == CHOOSE r \in rows : \A q \in rows : q.id <= r.id
         IN  <<top>> \o OrderByIdDesc(rows \ {top})

\* ORDER BY id ASC
RECURSIVE OrderByIdAsc(_)
OrderByIdAsc(rows) ==
    IF rows = {} THEN <<>>
    ELSE LET low == CHOOSE r \in rows : \A q \in rows : q.id >= r.id
         IN  <<low>> \o OrderByIdAsc(rows \ {low})

\* LIMIT n
Limit(q, n) == SubSeq(q, 1, IF Len(q) < n THEN Len(q) ELSE n)

\* the columns get_transaction_history selects and returns (less the timestamp)
Formatted(q) == [j \in DOMAIN q |-> [amount |-> q[j].amount, type |-> q[j].type]]

\* a history query that lists the oldest records first
SelectHistory_asc(d, acct) ==
    Formatted(Limit(OrderByIdAsc(Matching(d, acct)), HistoryLimit))

\* SELECT type, amount, timestamp FROM transactions WHERE account_id = ?
\* ORDER BY id DESC LIMIT 10
SelectHistory(d, acct) ==
    Formatted(Limit(OrderByIdDesc(Matching(d, acct)), HistoryLimit))

\* ---- transaction control ----

\* the image a write statement of thread t works on: its own open transaction,
\* or the committed file when the statement opens the transaction
Image(t) == IF writer = t THEN work ELSE db

\* a write statement can run when no other connection holds the write lock
CanWrite(t) == writer = 0 \/ writer = t

\* a connection that reads the write-lock holder's uncommitted pages
ReadImage_dirty == work

\* the image another connection's SELECT reads
ReadImage == db

\* an error path that writes the connection's changes out instead of dropping them
RolledBack_keeps(committed, cache) == cache

\* conn.rollback(): what the file holds after a connection gives up its changes
RolledBack(committed, cache) == committed

\* create_account run to completion on image d, with no other request active
Created(d, initial_deposit) ==
    LET ins == InsertAccount(d, initial_deposit) IN
        IF initial_deposit > 0
        THEN log_transaction(ins, Len(ins.accounts), "DEPOSIT", initial_deposit)
        ELSE ins

\* the database that create_account requests with the given opening deposits,
\* served one after the other, leave
RECURSIVE Opened(_)
Opened(deposits) ==
    IF deposits = <<>> THEN EmptyDb
    ELSE Created(Opened(SubSeq(deposits, 1, Len(deposits) - 1)),
                 deposits[Len(deposits)])

\* init_db, then up to MaxAcct accounts opened one after the other
Init ==
    /\ \E n \in 0..MaxAcct : \E deposits \in [1..n -> InitDeposits] :
            db = Opened(deposits)
    /\ work = db
    /\ writer = 0
    /\ pc = [t \in Threads |-> "idle"]
    /\ op = [t \in Threads |-> NoOp]
    /\ current_balance = [t \in Threads |-> 0]
    /\ account_id = [t \in Threads |-> 0]
    /\ result = [t \in Threads |-> "none"]
    /\ ret = [t \in Threads |-> 0]
    /\ readw = [t \in Threads |-> 0]
    /\ failed_at = [t \in Threads |-> ""]
    /\ nops = 0

Resting(t) == pc[t] \in {"idle", "done"}

\* a request arrives on thread t
Begin(t, o, next, res) ==
    /\ Resting(t)
    /\ nops < MaxOps
    /\ nops' = nops + 1
    /\ op' = [op EXCEPT ![t] = o]
    /\ pc' = [pc EXCEPT ![t] = next]
    /\ result' = [result EXCEPT ![t] = res]
    /\ current_balance' = [current_balance EXCEPT ![t] = 0]
    /\ account_id' = [account_id EXCEPT ![t] = 0]
    /\ ret' = [ret EXCEPT ![t] = 0]
    /\ readw' = [readw EXCEPT ![t] = 0]
    /\ failed_at' = [failed_at EXCEPT ![t] = ""]
    /\ UNCHANGED <<db, work, writer>>

\* a request ends without touching the database
Finish(t, res) ==
    /\ pc' = [pc EXCEPT ![t] = "done"]
    /\ result' = [result EXCEPT ![t] = res]

\* ---- create_account ----

CreateStart(t) ==
    \E amt \in Amounts :
        /\ Begin(t, [account_id |-> 0, kind |-> "create_account",
                     to_account_id |-> 0, amount |-> amt], "c_insert", "none")
        /\ Len(db.accounts) + Cardinality({u \in Threads : op[u].kind = "create_account"
                                             /\ ~Resting(u)}) < MaxAcct

\* a create_account that never logs the opening deposit
CreateInsert_skipslog(t) ==
    /\ pc[t] = "c_insert"
    /\ CanWrite(t)
    /\ writer' = t
    /\ work' = InsertAccount(Image(t), op[t].amount)
    /\ account_id' = [account_id EXCEPT ![t] = Len(work'.accounts)]
    /\ pc' = [pc EXCEPT ![t] = "commit"]
    /\ UNCHANGED <<db, op, current_balance, result, ret, readw, failed_at, nops>>

CreateInsert(t) ==
    /\ pc[t] = "c_insert"
    /\ CanWrite(t)
    /\ writer' = t
    /\ work' = InsertAccount(Image(t), op[t].amount)
    /\ account_id' = [account_id EXCEPT ![t] = Len(work'.accounts)]
    /\ pc' = [pc EXCEPT ![t] = IF op[t].amount > 0 THEN "c_log" ELSE "commit"]
    /\ UNCHANGED <<db, op, current_balance, result, ret, readw, failed_at, nops>>

CreateLog(t) ==
    /\ pc[t] = "c_log"
    /\ work' = log_transaction(work, account_id[t], "DEPOSIT", op[t].amount)
    /\ pc' = [pc EXCEPT ![t] = "commit"]
    /\ UNCHANGED <<db, writer, op, current_balance, account_id, result,
                   ret, readw, failed_at, nops>>

\* ---- get_balance ----

GetBalanceStart(t) ==
    \E a \in AcctIds :
        Begin(t, [account_id |-> a, kind |-> "get_balance",
                  to_account_id |-> 0, amount |-> 0], "g_select", "none")

GetBalance(t) ==
    /\ pc[t] = "g_select"
    /\ LET row == SelectBalance(ReadImage, op[t].account_id) IN
        IF row = <<>>
        THEN /\ Finish(t, "NotFound")
             /\ UNCHANGED <<ret, readw>>
        ELSE /\ Finish(t, "OK")
             /\ ret' = [ret EXCEPT ![t] = row[1]]
             /\ readw' = [readw EXCEPT ![t] = writer]
    /\ UNCHANGED <<db, work, writer, op, current_balance, account_id, failed_at, nops>>

\* ---- deposit ----

\* if request.amount <= 0: raise 400, before any connection is opened
DepositStart(t) ==
    \E a \in AcctIds, amt \in Amounts :
        LET o == [account_id |-> a, kind |-> "deposit",
                  to_account_id |-> 0, amount |-> amt] IN
            IF amt <= 0
            THEN Begin(t, o, "done", "InvalidAmount")
            ELSE Begin(t, o, "d_select", "none")

DepositSelect(t) ==
    /\ pc[t] = "d_select"
    /\ IF SelectBalance(ReadImage, op[t].account_id) = <<>>
       THEN Finish(t, "NotFound")
       ELSE /\ pc' = [pc EXCEPT ![t] = "d_update"]
            /\ UNCHANGED result
    /\ UNCHANGED <<db, work, writer, op, current_balance, account_id,
                   ret, readw, failed_at, nops>>

DepositUpdate(t) ==
    /\ pc[t] = "d_update"
    /\ CanWrite(t)
    /\ writer' = t
    /\ work' = UpdateBalance(Image(t), op[t].account_id, op[t].amount)
    /\ pc' = [pc EXCEPT ![t] = "d_log"]
    /\ UNCHANGED <<db, op, current_balance, account_id, result, ret, readw, failed_at, nops>>

DepositLog(t) ==
    /\ pc[t] = "d_log"
    /\ work' = log_transaction(work, op[t].account_id, "DEPOSIT", op[t].amount)
    /\ pc' = [pc EXCEPT ![t] = "commit"]
    /\ UNCHANGED <<db, writer, op, current_balance, account_id, result,
                   ret, readw, failed_at, nops>>

\* ---- withdraw ----

\* if request.amount <= 0: raise 400, before any connection is opened
WithdrawStart(t) ==
    \E a \in AcctIds, amt \in Amounts :
        LET o == [account_id |-> a, kind |-> "withdraw",
                  to_account_id |-> 0, amount |-> amt] IN
            IF amt <= 0
            THEN Begin(t, o, "done", "InvalidAmount")
            ELSE Begin(t, o, "w_select", "none")

\* a sufficiency check that also refuses a withdrawal of the whole balance
WithdrawSelect_strict(t) ==
    /\ pc[t] = "w_select"
    /\ LET row == SelectBalance(ReadImage, op[t].account_id) IN
        IF row = <<>>
        THEN /\ Finish(t, "NotFound")
             /\ UNCHANGED current_balance
        ELSE /\ current_balance' = [current_balance EXCEPT ![t] = row[1]]
             /\ IF row[1] <= op[t].amount
                THEN Finish(t, "InsufficientFunds")
                ELSE /\ pc' = [pc EXCEPT ![t] = "w_update"]
                     /\ UNCHANGED result
    /\ UNCHANGED <<db, work, writer, op, account_id, ret, readw, failed_at, nops>>

\* the balance read: SELECT, fetchone, and the two checks on the fetched row
WithdrawSelect(t) ==
    /\ pc[t] = "w_select"
    /\ LET row == SelectBalance(ReadImage, op[t].account_id) IN
        IF row = <<>>
        THEN /\ Finish(t, "NotFound")
             /\ UNCHANGED current_balance
        ELSE /\ current_balance' = [current_balance EXCEPT ![t] = row[1]]
             /\ IF row[1] < op[t].amount
                THEN Finish(t, "InsufficientFunds")
                ELSE /\ pc' = [pc EXCEPT ![t] = "w_update"]
                     /\ UNCHANGED result
    /\ UNCHANGED <<db, work, writer, op, account_id, ret, readw, failed_at, nops>>

\* the balance update: UPDATE ... SET balance = balance - ?, on the image as
\* it is when the write lock is obtained
WithdrawUpdate(t) ==
    /\ pc[t] = "w_update"
    /\ CanWrite(t)
    /\ writer' = t
    /\ work' = UpdateBalance(Image(t), op[t].account_id, 0 - op[t].amount)
    /\ pc' = [pc EXCEPT ![t] = "w_log"]
    /\ UNCHANGED <<db, op, current_balance, account_id, result, ret, readw, failed_at, nops>>

WithdrawLog(t) ==
    /\ pc[t] = "w_log"
    /\ work' = log_transaction(work, op[t].account_id, "WITHDRAWAL", op[t].amount)
    /\ pc' = [pc EXCEPT ![t] = "commit"]
    /\ UNCHANGED <<db, writer, op, current_balance, account_id, result,
                   ret, readw, failed_at, nops>>

\* ---- transfer_funds ----

TransferStart(t) ==
    \E a \in AcctIds, b \in AcctIds, amt \in Amounts :
        Begin(t, [account_id |-> a, kind |-> "transfer_funds",
                  to_account_id |-> b, amount |-> amt], "t_select", "none")

\* 1. Check Sender: SELECT, fetchone, sender and sufficiency checks
TransferSelect(t) ==
    /\ pc[t] = "t_select"
    /\ LET sender == SelectBalance(ReadImage, op[t].account_id) IN
        IF sender = <<>>
        THEN /\ Finish(t, "SenderNotFound")
             /\ UNCHANGED current_balance
        ELSE /\ current_balance' = [current_balance EXCEPT ![t] = sender[1]]
             /\ IF sender[1] < op[t].amount
                THEN Finish(t, "InsufficientFunds")
                ELSE /\ pc' = [pc EXCEPT ![t] = "t_debit"]
                     /\ UNCHANGED result
    /\ UNCHANGED <<db, work, writer, op, account_id, ret, readw, failed_at, nops>>

\* 2. Execute Transfer: the debit
TransferDebit(t) ==
    /\ pc[t] = "t_debit"
    /\ CanWrite(t)
    /\ writer' = t
    /\ work' = UpdateBalance(Image(t), op[t].account_id, 0 - op[t].amount)
    /\ pc' = [pc EXCEPT ![t] = "t_credit"]
    /\ UNCHANGED <<db, op, current_balance, account_id, result, ret, readw, failed_at, nops>>

\* a credit computed from the balance as committed, not as the debit left it
TransferCredit_stale(t) ==
    /\ pc[t] = "t_credit"
    /\ work' = IF op[t].to_account_id \in DOMAIN work.accounts
               THEN [work EXCEPT !.accounts[op[t].to_account_id] =
                        db.accounts[op[t].to_account_id] + op[t].amount]
               ELSE work
    /\ pc' = [pc EXCEPT ![t] = "t_logout"]
    /\ UNCHANGED <<db, writer, op, current_balance, account_id, result,
                   ret, readw, failed_at, nops>>

\* the credit
TransferCredit(t) ==
    /\ pc[t] = "t_credit"
    /\ work' = UpdateBalance(work, op[t].to_account_id, op[t].amount)
    /\ pc' = [pc EXCEPT ![t] = "t_logout"]
    /\ UNCHANGED <<db, writer, op, current_balance, account_id, result,
                   ret, readw, failed_at, nops>>

TransferLogOut(t) ==
    /\ pc[t] = "t_logout"
    /\ work' = log_transaction(work, op[t].account_id, "TRANSFER_OUT", op[t].amount)
    /\ pc' = [pc EXCEPT ![t] = "t_login"]
    /\ UNCHANGED <<db, writer, op, current_balance, account_id, result,
                   ret, readw, failed_at, nops>>

TransferLogIn(t) ==
    /\ pc[t] = "t_login"
    /\ work' = log_transaction(work, op[t].to_account_id, "TRANSFER_IN", op[t].amount)
    /\ pc' = [pc EXCEPT ![t] = "commit"]
    /\ UNCHANGED <<db, writer, op, current_balance, account_id, result,
                   ret, readw, failed_at, nops>>

\* ---- get_transaction_history ----

HistoryStart(t) ==
    \E a \in AcctIds :
        Begin(t, [account_id |-> a, kind |-> "get_transaction_history",
                  to_account_id |-> 0, amount |-> 0], "h_select", "none")

\* an unknown account gets an empty history, not a 404
History(t) ==
    /\ pc[t] = "h_select"
    /\ ret' = [ret EXCEPT ![t] = SelectHistory(ReadImage, op[t].account_id)]
    /\ Finish(t, "OK")
    /\ UNCHANGED <<db, work, writer, op, current_balance, account_id, readw,
                   failed_at, nops>>

\* ---- commit and failure ----

\* a commit that leaves the write lock held
Commit_holds(t) ==
    /\ pc[t] = "commit"
    /\ writer = t
    /\ db' = work
    /\ work' = work
    /\ writer' = writer
    /\ Finish(t, "OK")
    /\ UNCHANGED <<op, current_balance, account_id, ret, readw, failed_at, nops>>

\* conn.commit(): the cache of the open transaction becomes the file
Commit(t) ==
    /\ pc[t] = "commit"
    /\ writer = t
    /\ db' = work
    /\ work' = work
    /\ writer' = 0
    /\ Finish(t, "OK")
    /\ UNCHANGED <<op, current_balance, account_id, ret, readw, failed_at, nops>>

\* statements that touch the database file and can raise sqlite3.Error
\* (I/O error, disk full, "database is locked" after the busy timeout)
DbSteps == {"c_insert", "c_log", "g_select", "d_select", "d_update", "d_log",
            "w_select", "w_update", "w_log", "t_select", "t_debit",
            "t_credit", "t_logout", "t_login", "h_select", "commit"}

\* a statement raises: transfer_funds rolls back in its except clause, the
\* other endpoints in Connection.__exit__; the caller gets a 500
StorageFailure(t) ==
    /\ pc[t] \in DbSteps
    /\ db' = RolledBack(db, Image(t))
    /\ work' = IF writer = t THEN db' ELSE work
    /\ writer' = IF writer = t THEN 0 ELSE writer
    /\ Finish(t, "StorageFailure")
    /\ failed_at' = [failed_at EXCEPT ![t] = pc[t]]
    /\ UNCHANGED <<op, current_balance, account_id, ret, readw, nops>>

Next ==
    \E t \in Threads :
        \/ CreateStart(t) \/ CreateInsert(t) \/ CreateLog(t)
        \/ GetBalanceStart(t) \/ GetBalance(t)
        \/ DepositStart(t) \/ DepositSelect(t)
        \/ DepositUpdate(t) \/ DepositLog(t)
        \/ WithdrawStart(t) \/ WithdrawSelect(t)
        \/ WithdrawUpdate(t) \/ WithdrawLog(t)
        \/ TransferStart(t) \/ TransferSelect(t) \/ TransferDebit(t)
        \/ TransferCredit(t) \/ TransferLogOut(t) \/ TransferLogIn(t)
        \/ HistoryStart(t) \/ History(t)
        \/ Commit(t) \/ StorageFailure(t)

Spec == Init /\ [][Next]_vars

TypeOK ==
    /\ writer \in Threads \cup {0}
    /\ writer = 0 => work = db
    /\ \A t \in Threads : writer = t => ~Resting(t)

\* ---- N concurrent withdrawals of one amount against one account ----

\* one account opened with balance B; every thread serves withdraw(1, A) and
\* has passed the amount check
InitW ==
    /\ \E B \in 0..MaxWBal : db = Opened(<<B>>)
    /\ work = db
    /\ writer = 0
    /\ \E A \in WAmounts :
        op = [t \in Threads |-> [account_id |-> 1, kind |-> "withdraw",
                                 to_account_id |-> 0, amount |-> A]]
    /\ pc = [t \in Threads |-> "w_select"]
    /\ current_balance = [t \in Threads |-> 0]
    /\ account_id = [t \in Threads |-> 0]
    /\ result = [t \in Threads |-> "none"]
    /\ ret = [t \in Threads |-> 0]
    /\ readw = [t \in Threads |-> 0]
    /\ failed_at = [t \in Threads |-> ""]
    /\ nops = NThreads

NextW ==
    \E t \in Threads :
        \/ WithdrawSelect(t) \/ WithdrawUpdate(t) \/ WithdrawLog(t) \/ Commit(t)

SpecW == InitW /\ [][NextW]_vars

\* ---- helpers for the properties ----

RECURSIVE SumSeq(_)
SumSeq(q) == IF q = <<>> THEN 0 ELSE q[1] + SumSeq(Tail(q))

\* total of all account balances of an image
TotalBalance(d) == SumSeq(d.accounts)

Failures == {"InvalidAmount", "NotFound", "SenderNotFound", "InsufficientFunds",
             "StorageFailure"}

Mutating == {"deposit", "withdraw", "transfer_funds"}

\* thread t's request ends in this step
Ends(t) == pc[t] # "done" /\ pc'[t] = "done"

\* thread t's request commits in this step
Commits(t) == pc[t] = "commit" /\ pc'[t] = "done" /\ result'[t] = "OK"

\* accounts a request reads, checks or updates
Touched(t) ==
    IF op[t].kind = "transfer_funds"
    THEN {op[t].account_id, op[t].to_account_id}
    ELSE {op[t].account_id}

\* thread t is after its balance read and before its commit
InWindow(t) ==
    pc[t] \in {"d_update", "d_log", "w_update", "w_log", "t_debit", "t_credit",
               "t_logout", "t_login", "commit"}
    /\ op[t].kind \in Mutating

\* thread t's transfer has debited the sender and has not committed
Debited(t) ==
    /\ op[t].kind = "transfer_funds"
    /\ pc[t] \in {"t_credit", "t_logout", "t_login", "commit"}

\* ---- properties ----

\* C1: in every committed state every account's balance is >= 0.
C1_BalanceNonNegative ==
    \A i \in DOMAIN db.accounts : db.accounts[i] >= 0

\* the balance the account of the withdrawal scenario was opened with
OpeningBalance ==
    IF db.transactions # <<>> /\ db.transactions[1].type = "DEPOSIT"
    THEN db.transactions[1].amount
    ELSE 0

Succeeded == {t \in Threads : result[t] = "OK"}

\* C2: N concurrent withdrawals of amount A against one account of balance B
\* end with exactly floor(B/A) successes, the others failing with
\* InsufficientFunds, and a final balance of B - A * floor(B/A).
C2_ConcurrentWithdrawals ==
    (\A t \in Threads : pc[t] = "done") =>
        LET A == op[1].amount
            B == OpeningBalance
        IN  /\ Cardinality(Succeeded) = B \div A
            /\ \A t \in Threads \ Succeeded : result[t] = "InsufficientFunds"
            /\ db.accounts[1] = B - A * (B \div A)

\* C3: a transfer whose receiver does not exist, from a sender that passed the
\* existence and sufficiency checks with amount > 0, ends with ReceiverNotFound
\* (or a storage failure) and leaves the committed balances and log unchanged.
C3_ReceiverNotFound ==
    [][\A t \in Threads :
          (/\ op[t].kind = "transfer_funds"
           /\ op[t].amount > 0
           /\ op[t].to_account_id \notin DOMAIN db.accounts
           /\ pc[t] \in {"t_debit", "t_credit", "t_logout", "t_login", "commit"}
           /\ Ends(t))
          => /\ result'[t] \in {"ReceiverNotFound", "StorageFailure"}
             /\ db' = db]_vars

\* C4: a transfer with amount <= 0 ends with InvalidAmount and changes no
\* committed balance and appends no record.  The claim covers every sender and
\* receiver; it is stated here for the requests whose sender and receiver both
\* exist.
C4_TransferInvalidAmount ==
    [][\A t \in Threads :
          (/\ op[t].kind = "transfer_funds"
           /\ op[t].amount <= 0
           /\ op[t].account_id \in DOMAIN db.accounts
           /\ op[t].to_account_id \in DOMAIN db.accounts
           /\ Ends(t))
          => /\ result'[t] = "InvalidAmount"
             /\ db' = db]_vars

\* C5: a committed transfer leaves the total of all account balances
\* unchanged.  Stated for the transfers of an amount > 0.
C5_Conservation ==
    [][\A t \in Threads :
          (op[t].kind = "transfer_funds" /\ op[t].amount > 0 /\ Commits(t))
          => TotalBalance(db') = TotalBalance(db)]_vars

\* accounts whose committed balance differs between two images
Changed(d, e) ==
    {i \in DOMAIN d.accounts : e.accounts[i] # d.accounts[i]}

\* records image e holds beyond those of image d
Added(d, e) ==
    SubSeq(e.transactions, Len(d.transactions) + 1, Len(e.transactions))

\* C6: a committed deposit or withdraw appends exactly one record (DEPOSIT or
\* WITHDRAWAL) and changes exactly one balance; a committed transfer appends
\* exactly two records, TRANSFER_OUT on the sender and TRANSFER_IN on the
\* receiver with equal amount, each for a balance change applied to an
\* account that exists.  Stated for the transfers of an amount > 0.
C6_AuditCompleteness ==
    [][\A t \in Threads :
          Commits(t) =>
            LET new == Added(db, db') IN
              /\ op[t].kind \in {"deposit", "withdraw"} =>
                    /\ Len(new) = 1
                    /\ new[1].type =
                         (IF op[t].kind = "deposit" THEN "DEPOSIT" ELSE "WITHDRAWAL")
                    /\ new[1].account_id = op[t].account_id
                    /\ new[1].amount = op[t].amount
                    /\ Changed(db, db') = {op[t].account_id}
              /\ (op[t].kind = "transfer_funds" /\ op[t].amount > 0) =>
                    /\ Len(new) = 2
                    /\ new[1].type = "TRANSFER_OUT"
                    /\ new[1].account_id = op[t].account_id
                    /\ new[2].type = "TRANSFER_IN"
                    /\ new[2].account_id = op[t].to_account_id
                    /\ new[1].amount = new[2].amount
                    /\ new[1].account_id \in DOMAIN db'.accounts
                    /\ new[2].account_id \in DOMAIN db'.accounts]_vars

\* C7: no two of deposit, withdraw and transfer_funds that touch a common
\* account are both between their balance read and their commit.
C7_NoInterleaving ==
    \A t, u \in Threads :
        (t # u /\ InWindow(t) /\ InWindow(u)) => Touched(t) \cap Touched(u) = {}

\* what a whole transfer of thread t makes of image d
Transferred(d, t) ==
    log_transaction(
        log_transaction(
            UpdateBalance(
                UpdateBalance(d, op[t].account_id, 0 - op[t].amount),
                op[t].to_account_id, op[t].amount),
            op[t].account_id, "TRANSFER_OUT", op[t].amount),
        op[t].to_account_id, "TRANSFER_IN", op[t].amount)

\* C8: from the debit of a transfer on, the committed balances and log change
\* only by that transfer's own commit, which applies the whole transfer; a
\* failure after the debit leaves them as they were, releases the write lock
\* and leaves nothing of the transfer behind.
C8_TransferRollback ==
    [][\A t \in Threads :
          Debited(t) =>
            /\ db' = db \/ (Commits(t) /\ db' = Transferred(db, t))
            /\ (Ends(t) /\ ~Commits(t)) =>
                  /\ result'[t] = "StorageFailure"
                  /\ db' = db
                  /\ work' = db
                  /\ writer' = 0]_vars

\* a transfer of an amount > 0 failed after its debit and was rolled back
C8_Witness ==
    \E t \in Threads :
        /\ op[t].kind = "transfer_funds"
        /\ op[t].amount > 0
        /\ op[t].account_id # op[t].to_account_id
        /\ result[t] = "StorageFailure"
        /\ failed_at[t] \in {"t_credit", "t_logout", "t_login", "commit"}
        /\ writer = 0

\* thread t's deposit, withdraw or transfer returns a failure in this step
Fails(t) ==
    /\ op'[t].kind \in Mutating
    /\ result'[t] \in Failures
    /\ pc[t] # "done" \/ nops' # nops

\* C9: the step on which a deposit, withdraw or transfer returns a failure
\* leaves every committed balance and the whole log unchanged, and so does
\* every earlier step of that request: the committed state changes only on the
\* step on which a request commits and returns success.
C9_FailureChangesNothing ==
    [][/\ \A t \in Threads : Fails(t) => db' = db
       /\ db' # db => \E t \in Threads : Commits(t)]_vars

\* a withdraw that the balance covered failed after its balance update
C9_Witness ==
    \E t \in Threads :
        /\ op[t].kind = "withdraw"
        /\ result[t] = "StorageFailure"
        /\ failed_at[t] \in {"w_log", "commit"}
        /\ db.accounts[op[t].account_id] >= op[t].amount

LiveOps ==
    {[account_id |-> a, kind |-> k, to_account_id |-> 0, amount |-> 1] :
        a \in 1..2, k \in {"deposit", "withdraw"}}
    \cup
    {[account_id |-> a, kind |-> "transfer_funds", to_account_id |-> b, amount |-> 1] :
        a \in 1..2, b \in 1..2}

\* the first database statement of an endpoint
FirstStep(kind) ==
    CASE kind = "deposit" -> "d_select"
      [] kind = "withdraw" -> "w_select"
      [] kind = "transfer_funds" -> "t_select"

\* two accounts are open; every thread has a request in flight, before its
\* first database statement
InitL ==
    /\ \E deposits \in [1..2 -> InitDeposits] : db = Opened(deposits)
    /\ work = db
    /\ writer = 0
    /\ op \in [Threads -> LiveOps]
    /\ pc = [t \in Threads |-> FirstStep(op[t].kind)]
    /\ current_balance = [t \in Threads |-> 0]
    /\ account_id = [t \in Threads |-> 0]
    /\ result = [t \in Threads |-> "none"]
    /\ ret = [t \in Threads |-> 0]
    /\ readw = [t \in Threads |-> 0]
    /\ failed_at = [t \in Threads |-> ""]
    /\ nops = NThreads

\* thread t executes the next statement of its deposit, withdraw or transfer
Advance(t) ==
    \/ DepositSelect(t) \/ DepositUpdate(t) \/ DepositLog(t)
    \/ WithdrawSelect(t) \/ WithdrawUpdate(t) \/ WithdrawLog(t)
    \/ TransferSelect(t) \/ TransferDebit(t) \/ TransferCredit(t)
    \/ TransferLogOut(t) \/ TransferLogIn(t)
    \/ Commit(t)

NextL == \E t \in Threads : Advance(t) \/ StorageFailure(t)

\* every worker thread keeps running: a statement that can execute does
\* execute; no storage failure is ever bound to happen
FairSpecL == InitL /\ [][NextL]_vars /\ \A t \in Threads : WF_vars(Advance(t))

\* C11: under fair scheduling every started deposit, withdraw or transfer
\* terminates, by a commit or a failure; in particular two transfers in
\* opposite directions do not wait for each other forever.
C11_Termination ==
    \A t \in Threads : (pc[t] # "done") ~> (pc[t] = "done")

\* a transfer from A to B holds the write lock while a transfer from B to A
\* waits for it
C11_Witness ==
    \E t, u \in Threads :
        /\ op[t].kind = "transfer_funds" /\ op[u].kind = "transfer_funds"
        /\ op[t].account_id # op[t].to_account_id
        /\ op[u].account_id = op[t].to_account_id
        /\ op[u].to_account_id = op[t].account_id
        /\ writer = t
        /\ pc[u] = "t_debit"

\* C12: every committed transaction record has amount > 0.
C12_PositiveAmounts ==
    \A i \in DOMAIN db.transactions : db.transactions[i].amount > 0

\* C13: the account_id of every committed transaction record is the id of an
\* existing account.  Stated for the records of an amount > 0.
C13_RecordsReferToAccounts ==
    \A i \in DOMAIN db.transactions :
        db.transactions[i].amount > 0
        => db.transactions[i].account_id \in DOMAIN db.accounts

\* every record of log p is a record of log q, at the same place
IsPrefix(p, q) ==
    /\ Len(p) <= Len(q)
    /\ \A i \in DOMAIN p : q[i] = p[i]

\* C14: the committed log is append-only: every step keeps each record with
\* its account_id, type and amount, and gives every record it adds an id
\* greater than every id already in the log.
C14_AppendOnly ==
    [][/\ IsPrefix(db.transactions, db'.transactions)
       /\ \A i \in DOMAIN db'.transactions \ DOMAIN db.transactions :
             \A j \in 1..(i - 1) :
                db'.transactions[i].id > db'.transactions[j].id]_vars

\* a transfer committed its two records behind an earlier record
C14_Witness ==
    \E t \in Threads :
        /\ op[t].kind = "transfer_funds"
        /\ result[t] = "OK"
        /\ Len(db.transactions) >= 3
        /\ db.transactions[Len(db.transactions)].type = "TRANSFER_IN"
        /\ db.transactions[Len(db.transactions) - 1].type = "TRANSFER_OUT"

\* C15: create_account commits in one step the new account, with a fresh id and
\* balance initial_deposit, together with exactly one DEPOSIT record of that
\* amount when initial_deposit > 0 and with no record when initial_deposit = 0;
\* a create_account that fails commits nothing.
C15_CreateAtomic ==
    [][\A t \in Threads :
          (op[t].kind = "create_account" /\ op[t].amount >= 0 /\ Ends(t)) =>
            IF Commits(t)
            THEN /\ account_id[t] = Len(db.accounts) + 1
                 /\ db'.accounts = Append(db.accounts, op[t].amount)
                 /\ Added(db, db') =
                      IF op[t].amount > 0
                      THEN <<[account_id |-> account_id[t], amount |-> op[t].amount,
                              id |-> Len(db.transactions) + 1, type |-> "DEPOSIT"]>>
                      ELSE <<>>
            ELSE db' = db]_vars

\* a create_account with a positive opening deposit has committed the account
\* and its DEPOSIT record
C15_Witness ==
    \E t \in Threads :
        /\ op[t].kind = "create_account"
        /\ op[t].amount > 0
        /\ result[t] = "OK"
        /\ db.accounts[account_id[t]] = op[t].amount
        /\ \E i \in DOMAIN db.transactions :
              /\ db.transactions[i].account_id = account_id[t]
              /\ db.transactions[i].type = "DEPOSIT"

\* the balance the log of image d gives account a: its DEPOSIT and
\* TRANSFER_IN amounts less its WITHDRAWAL and TRANSFER_OUT amounts
RECURSIVE LogBalance(_, _)
LogBalance(log, a) ==
    IF log = <<>> THEN 0
    ELSE LET r == log[Len(log)]
             rest == LogBalance(SubSeq(log, 1, Len(log) - 1), a)
         IN  IF r.account_id # a THEN rest
             ELSE IF r.type \in {"DEPOSIT", "TRANSFER_IN"} THEN rest + r.amount
             ELSE rest - r.amount

\* C16: in every committed state each account's balance is the balance its
\* records give.
C16_LogReconstructsBalances ==
    \A a \in DOMAIN db.accounts :
        db.accounts[a] = LogBalance(db.transactions, a)

\* ---- one request at a time ----

\* thread 1 serves withdrawals one after the other; no other thread runs
NextSeq ==
    \/ WithdrawStart(1) \/ WithdrawSelect(1) \/ WithdrawUpdate(1)
    \/ WithdrawLog(1) \/ Commit(1) \/ StorageFailure(1)

SpecSeq == Init /\ [][NextSeq]_vars

\* C17: a withdraw of an amount > 0 from an existing account, with no other
\* request running, ends in success exactly when the committed balance is
\* >= amount, and then lowers that balance by amount and no other; it ends
\* with InsufficientFunds exactly when the balance is < amount; a storage
\* failure is the only other end, and neither failure changes anything.
C17_WithdrawSequential ==
    [][\A t \in Threads :
          (/\ op[t].kind = "withdraw"
           /\ op[t].amount > 0
           /\ op[t].account_id \in DOMAIN db.accounts
           /\ Ends(t)) =>
            LET a == op[t].account_id
                balance == db.accounts[a]
            IN  \/ /\ result'[t] = "OK"
                   /\ balance >= op[t].amount
                   /\ db'.accounts = [db.accounts EXCEPT ![a] = balance - op[t].amount]
                \/ /\ result'[t] = "InsufficientFunds"
                   /\ balance < op[t].amount
                   /\ pc[t] = "w_select"
                   /\ db' = db
                \/ /\ result'[t] = "StorageFailure"
                   /\ db' = db]_vars

\* a withdrawal of the whole balance succeeded and left balance 0
C17_Witness ==
    \E t \in Threads :
        /\ op[t].kind = "withdraw"
        /\ result[t] = "OK"
        /\ current_balance[t] = op[t].amount
        /\ db.accounts[op[t].account_id] = 0

\* ---- histories of long logs ----

\* deposit run to completion on image d, with no other request active
Deposited(d, acct, amount) ==
    log_transaction(UpdateBalance(d, acct, amount), acct, "DEPOSIT", amount)

\* the database after one deposit per entry of accts, the i-th of amount i into
\* account accts[i], served one after the other
RECURSIVE DepositedAll(_, _)
DepositedAll(d, accts) ==
    IF accts = <<>> THEN d
    ELSE Deposited(DepositedAll(d, SubSeq(accts, 1, Len(accts) - 1)),
                   accts[Len(accts)], Len(accts))

\* two accounts opened empty, then up to MaxHist deposits; thread 1 has a
\* history request in flight
InitH ==
    /\ \E n \in 0..MaxHist : \E accts \in [1..n -> 1..2] :
            db = DepositedAll(Opened(<<0, 0>>), accts)
    /\ work = db
    /\ writer = 0
    /\ \E a \in AcctIds :
        op = [t \in Threads |->
                IF t = 1
                THEN [account_id |-> a, kind |-> "get_transaction_history",
                      to_account_id |-> 0, amount |-> 0]
                ELSE NoOp]
    /\ pc = [t \in Threads |-> IF t = 1 THEN "h_select" ELSE "idle"]
    /\ current_balance = [t \in Threads |-> 0]
    /\ account_id = [t \in Threads |-> 0]
    /\ result = [t \in Threads |-> "none"]
    /\ ret = [t \in Threads |-> 0]
    /\ readw = [t \in Threads |-> 0]
    /\ failed_at = [t \in Threads |-> ""]
    /\ nops = MaxOps

NextH == \E t \in Threads : History(t)

SpecH == InitH /\ [][NextH]_vars

\* C18: get_transaction_history returns min(10, n) rows when the account has n
\* records, and its j-th row is the record of that account that has exactly
\* j - 1 records of that account with a greater id: that account's records
\* only, most recent first, the ones with the highest ids.
C18_History ==
    [][\A t \in Threads :
          (pc[t] = "h_select" /\ Ends(t) /\ result'[t] = "OK") =>
            LET log == db.transactions
                mine == {i \in DOMAIN log : log[i].account_id = op[t].account_id}
                n == Cardinality(mine)
                k == IF n < HistoryLimit THEN n ELSE HistoryLimit
                rows == ret'[t]
            IN  /\ Len(rows) = k
                /\ \A j \in 1..k :
                      \E i \in mine :
                         /\ Cardinality({m \in mine : log[m].id > log[i].id}) = j - 1
                         /\ rows[j].type = log[i].type
                         /\ rows[j].amount = log[i].amount]_vars

\* a history of an account with more than 10 records returned 10 rows
C18_Witness ==
    \E t \in Threads :
        /\ op[t].kind = "get_transaction_history"
        /\ result[t] = "OK"
        /\ Cardinality(Matching(db, op[t].account_id)) > HistoryLimit
        /\ Len(ret[t]) = HistoryLimit

\* C19: a transfer whose sender and receiver are the same existing account,
\* of an amount > 0: when the balance read is >= amount it goes on and, unless
\* storage fails, commits with every balance unchanged and exactly one
\* TRANSFER_OUT and one TRANSFER_IN record on that account appended; when the
\* balance read is < amount it ends with InsufficientFunds and changes nothing.
C19_SelfTransfer ==
    [][\A t \in Threads :
          (/\ op[t].kind = "transfer_funds"
           /\ op[t].account_id = op[t].to_account_id
           /\ op[t].account_id \in DOMAIN db.accounts
           /\ op[t].amount > 0
           /\ pc'[t] # pc[t]) =>
            LET a == op[t].account_id
                amt == op[t].amount
            IN  /\ pc[t] = "t_select" =>
                    \/ /\ db.accounts[a] >= amt
                       /\ pc'[t] = "t_debit"
                    \/ /\ db.accounts[a] < amt
                       /\ result'[t] = "InsufficientFunds"
                       /\ db' = db
                    \/ /\ result'[t] = "StorageFailure"
                       /\ db' = db
                /\ (pc[t] # "t_select" /\ Ends(t)) =>
                    \/ /\ Commits(t)
                       /\ db'.accounts = db.accounts
                       /\ Added(db, db') =
                            <<[account_id |-> a, amount |-> amt,
                               id |-> Len(db.transactions) + 1, type |-> "TRANSFER_OUT"],
                              [account_id |-> a, amount |-> amt,
                               id |-> Len(db.transactions) + 2, type |-> "TRANSFER_IN"]>>
                    \/ /\ result'[t] = "StorageFailure"
                       /\ db' = db]_vars

\* a transfer of an account to itself, of an amount > 0, has committed
C19_Witness ==
    \E t \in Threads :
        /\ op[t].kind = "transfer_funds"
        /\ op[t].account_id = op[t].to_account_id
        /\ op[t].amount > 0
        /\ result[t] = "OK"
        /\ Len(db.transactions) >= 2
        /\ db.transactions[Len(db.transactions)].type = "TRANSFER_IN"
        /\ db.transactions[Len(db.transactions)].account_id = op[t].account_id
        /\ db.accounts[op[t].account_id] = current_balance[t]

====
